---- MODULE Spec2Model ----
(***************************************************************************)
(* The download registry of jellyfin-expo: the zustand DownloadStore       *)
(* (src/stores/DownloadStore.ts), its AsyncStorage persistence, and the    *)
(* startup sequence of App (hydration, the mobx -> zustand migration and   *)
(* the render gate; the App component is the second document of           *)
(* src/.github/workflows/publish-beta.yml, lines 93-311).                  *)
(***************************************************************************)
EXTENDS Integers, Sequences, FiniteSets, TLC

VARIABLES
    downloads,          \* useDownloadStore state: Map<string, DownloadModel>, in insertion order
    notified,           \* the downloads last delivered to the store's subscribers
    durable,            \* AsyncStorage item 'DownloadStore'
    pending,            \* AsyncStorage.setItem('DownloadStore', str) calls in flight
    lastFlushed,        \* the string handed to the latest storage.setItem of this process
    zustandMigrated,    \* AsyncStorage item '__zustand_migrated__'
    mobxSync,           \* AsyncStorage item '__mobx_sync__'
    otherStores,        \* root / server / setting store contents the migration writes
    isHydrated,         \* useIsHydrated()
    hydratePc,          \* position of the persist middleware's rehydration
    isSplashReady,      \* App state
    isStoresReady,      \* App state
    skipLoadingScreen,  \* App prop
    migratePc,          \* position of migrateStores
    observers,          \* who has read the registry in this process
    lastCall,           \* the latest store action called, its argument and what it returned
    snapshot            \* the Map object a component got from the store earlier and kept

vars == <<downloads, notified, durable, pending, lastFlushed, zustandMigrated, mobxSync,
          otherStores, isHydrated, hydratePc, isSplashReady, isStoresReady,
          skipLoadingScreen, migratePc, observers, lastCall, snapshot>>

(***************************************************************************)
(* Bounds                                                                  *)
(***************************************************************************)
\* AsyncStorage writes of the download store that may be in flight at once.
MaxPending == 2
\* Pairs in a stored snapshot the load is tried on.
MaxStored == 3

(***************************************************************************)
(* Values                                                                  *)
(***************************************************************************)
\* An absent string: undefined / null / a missing AsyncStorage item.
NULL == "null"

Queued == "queued"
Downloading == "downloading"
Complete == "complete"
Failed == "failed"
DownloadStatus == {Queued, Downloading, Complete, Failed}

\* new DownloadModel(item, ...) with its status, isNew and canPlay fields;
\* isNew stands for the fields that are stored and restored as they are
\* (serverUrl, apiKey, filename, downloadUrl, extension).
DownloadModel(item, status, isNew, canPlay) ==
    [item |-> item, status |-> status, isNew |-> isNew, canPlay |-> canPlay]

NewItem(serverId, itemId) == [Id |-> itemId, ServerId |-> serverId]

\* DownloadModel.key: derived from the item's server id and id.
Key(download) == <<download.item.ServerId, download.item.Id>>

\* The DownloadModel values callers pass to add / update / delete.
DownloadModels ==
    { DownloadModel(NewItem("s1", "i1"), Queued, TRUE, TRUE),
      DownloadModel(NewItem("s1", "i1"), Complete, FALSE, TRUE),
      DownloadModel(NewItem("s1", "i2"), Downloading, TRUE, FALSE) }

(***************************************************************************)
(* Map<string, DownloadModel>: a sequence of <<key, value>> in insertion   *)
(* order, as Map.entries() yields them.                                    *)
(***************************************************************************)
EmptyMap == << >>

MapHas(m, k) == \E i \in 1..Len(m) : m[i][1] = k

MapGet(m, k) == m[CHOOSE i \in 1..Len(m) : m[i][1] = k][2]

MapKeys(m) == { m[i][1] : i \in 1..Len(m) }

\* Map.prototype.set: replaces the value in place, or appends a new entry.
MapSet(m, k, v) ==
    IF MapHas(m, k)
    THEN [i \in 1..Len(m) |-> IF m[i][1] = k THEN <<k, v>> ELSE m[i]]
    ELSE Append(m, <<k, v>>)

\* Map.prototype.delete
MapDelete(m, k) == SelectSeq(m, LAMBDA e : e[1] # k)

(***************************************************************************)
(* The serialization adapter.  A stored text is modelled by what           *)
(* JSON.parse makes of it: kind "absent" (no item), "unparseable"          *)
(* (JSON.parse throws), "nostate" (an object without .state), "noarray"    *)
(* (state.downloads is not an array) or "state", whose downloads is the    *)
(* array of [key, SerializedDownload] pairs.  An optional object is a      *)
(* sequence of length 0 or 1 (so is the optional boolean canPlay); an      *)
(* optional string is NULL when absent; isComplete is read for its         *)
(* truthiness only.                                                        *)
(***************************************************************************)
StoredText(kind, entries) == [kind |-> kind, downloads |-> entries]

AbsentText == StoredText("absent", << >>)

SerializedDownload(item, itemId, serverId, status, isComplete, isNew, canPlay) ==
    [item |-> item, itemId |-> itemId, serverId |-> serverId,
     status |-> status, isComplete |-> isComplete, isNew |-> isNew,
     canPlay |-> canPlay]

\* The status a freshly constructed DownloadModel has.
DefaultStatus == Queued

\* JSON.stringify that writes no status.
ToJSON_WithoutStatus(download) ==
    SerializedDownload(<<download.item>>, NULL, NULL, NULL, FALSE,
                       download.isNew, <<download.canPlay>>)

\* JSON.stringify of a DownloadModel: its own fields (key is a getter).
ToJSON(download) ==
    SerializedDownload(<<download.item>>, NULL, NULL, download.status, FALSE,
                       download.isNew, <<download.canPlay>>)

\* storage.setItem: the string built from Array.from(state.downloads.entries()).
Serialize(m) ==
    StoredText("state", [i \in 1..Len(m) |-> <<m[i][1], ToJSON(m[i][2])>>])

\* deserialize, line 63: neither an item nor both itemId and serverId.
IsInvalid(obj) ==
    obj.item = << >> /\ (obj.itemId = NULL \/ obj.serverId = NULL)

\* The legacy isComplete flag not looked at.
RestoredStatus_IgnoresIsComplete(obj) ==
    IF obj.status # NULL
    THEN IF obj.status # Downloading THEN obj.status ELSE DefaultStatus
    ELSE DefaultStatus

\* The stored status restored whatever it is.
RestoredStatus_AsStored(obj) ==
    IF obj.status # NULL
    THEN obj.status
    ELSE IF obj.isComplete THEN Complete ELSE DefaultStatus

\* deserialize, lines 88-96.
RestoredStatus(obj) ==
    IF obj.status # NULL
    THEN IF obj.status # Downloading THEN obj.status ELSE DefaultStatus
    ELSE IF obj.isComplete THEN Complete ELSE DefaultStatus

\* deserialize, line 98: a download stored without canPlay is playable.
RestoredCanPlay(obj) == IF obj.canPlay # << >> THEN obj.canPlay[1] ELSE TRUE

\* The item of a legacy entry rebuilt with its two ids exchanged.
Reconstruct_IdsExchanged(obj) ==
    DownloadModel(
        IF obj.item # << >> THEN obj.item[1] ELSE NewItem(obj.itemId, obj.serverId),
        RestoredStatus(obj),
        obj.isNew,
        RestoredCanPlay(obj))

\* deserialize, lines 73-100: the model built from one serialized download.
Reconstruct(obj) ==
    DownloadModel(
        IF obj.item # << >> THEN obj.item[1] ELSE NewItem(obj.serverId, obj.itemId),
        RestoredStatus(obj),
        obj.isNew,
        RestoredCanPlay(obj))

\* The loop left at the first invalid entry instead of going on to the next.
RECURSIVE DeserializeEntries_StopAtInvalid(_, _)
DeserializeEntries_StopAtInvalid(entries, m) ==
    IF entries = << >>
    THEN m
    ELSE LET key == Head(entries)[1]
             obj == Head(entries)[2]
         IN  IF obj.item = << >> /\ (obj.itemId = NULL \/ obj.serverId = NULL)
             THEN m
             ELSE DeserializeEntries_StopAtInvalid(
                      Tail(entries),
                      MapSet(m, key,
                             [item |-> IF obj.item # << >> THEN obj.item[1]
                                       ELSE [Id |-> obj.itemId, ServerId |-> obj.serverId],
                              status |-> IF obj.status # NULL
                                         THEN IF obj.status # Downloading THEN obj.status
                                              ELSE Queued
                                         ELSE IF obj.isComplete THEN Complete ELSE Queued,
                              isNew |-> obj.isNew,
                              canPlay |-> IF obj.canPlay # << >> THEN obj.canPlay[1] ELSE TRUE]))

\* deserialize, lines 62-103: the forEach over the stored pairs.
RECURSIVE DeserializeEntries(_, _)
DeserializeEntries(entries, m) ==
    IF entries = << >>
    THEN m
    ELSE LET key == Head(entries)[1]
             obj == Head(entries)[2]
         IN  DeserializeEntries(
                 Tail(entries),
                 IF IsInvalid(obj) THEN m ELSE MapSet(m, key, Reconstruct(obj)))

\* deserialize throws: JSON.parse fails, or value.state is undefined.
DeserializeThrows(text) == text.kind \in {"unparseable", "nostate"}

\* deserialize(valueString).state.downloads when it does not throw.
Deserialize(text) ==
    IF text.kind = "state" THEN DeserializeEntries(text.downloads, EmptyMap) ELSE EmptyMap

(***************************************************************************)
(* The legacy mobx blob ('__mobx_sync__') and the migration version.       *)
(* A blob is modelled by what JSON.parse makes of it: kind "absent",       *)
(* "unparseable" or "json".  downloadStore.downloads is a sequence of      *)
(* <<key, value>> in Object.entries order; a value is an optional          *)
(* object (<< >> is a JSON null).  stores is the set of sub-stores the     *)
(* parsed object has.                                                      *)
(***************************************************************************)
MobxBlob(kind, deviceId, stores, entries, servers, settings) ==
    [kind |-> kind, deviceId |-> deviceId, stores |-> stores, downloads |-> entries,
     servers |-> servers, settings |-> settings]

\* The sub-stores the migration reads from the legacy blob.
SubStores == {"downloadStore", "serverStore", "settingStore"}

AbsentBlob == MobxBlob("absent", NULL, {}, << >>, {}, {})

\* Track migration state with a version.
ZUSTAND_MIGRATION_VERSION == 2

\* parseInt(s, 10) of the stored version strings: << >> is NaN.
ParseInt(s) ==
    CASE s = "0" -> <<0>>
      [] s = "1" -> <<1>>
      [] s = "2" -> <<2>>
      [] s = "3" -> <<3>>
      [] OTHER -> << >>

\* parseInt(await AsyncStorage.getItem(ZUSTAND_MIGRATED) || '0', 10)
ZustandMigratedVersion(stored) == ParseInt(IF stored = NULL THEN "0" ELSE stored)

\* The version compared with <= instead of <.
ShouldMigrate_UpToCurrent(stored, blob) ==
    /\ ZustandMigratedVersion(stored) # << >>
    /\ ZustandMigratedVersion(stored)[1] <= ZUSTAND_MIGRATION_VERSION
    /\ blob.kind # "absent"

\* The two conditions joined by || instead of &&.
ShouldMigrate_EitherCondition(stored, blob) ==
    \/ /\ ZustandMigratedVersion(stored) # << >>
       /\ ZustandMigratedVersion(stored)[1] < ZUSTAND_MIGRATION_VERSION
    \/ blob.kind # "absent"

\* zustandMigratedVersion < ZUSTAND_MIGRATION_VERSION && mobxStoreValue !== null
\* (a comparison with NaN is false).
ShouldMigrate(stored, blob) ==
    /\ ZustandMigratedVersion(stored) # << >>
    /\ ZustandMigratedVersion(stored)[1] < ZUSTAND_MIGRATION_VERSION
    /\ blob.kind # "absent"

\* fromStorageObject(value) throws: the value is not an object.
FromStorageObjectThrows(value) == value = << >>

\* fromStorageObject(value): the record built from one legacy download.
FromStorageObject(value) == Reconstruct(value[1])

\* migrateStores, lines 187-193: the Map built from the legacy downloads.
RECURSIVE MigratedDownloads(_, _)
MigratedDownloads(entries, m) ==
    IF entries = << >>
    THEN m
    ELSE MigratedDownloads(
             Tail(entries),
             MapSet(m, Head(entries)[1], FromStorageObject(Head(entries)[2])))

\* The synchronous body of the migration throws at JSON.parse (line 169).
ParseThrows(blob) == blob.kind = "unparseable"

\* ... or at mobx_store.downloadStore.downloads (line 187), when the blob
\* has no downloadStore ...
DownloadStoreThrows(blob) == "downloadStore" \notin blob.stores

\* ... or inside the loop over the legacy downloads (line 191).
DownloadsThrow(blob) ==
    \E i \in 1..Len(blob.downloads) : FromStorageObjectThrows(blob.downloads[i][2])

\* The body throws before downloadStore.set (line 194).
ThrowsBeforeSet(blob) ==
    ParseThrows(blob) \/ DownloadStoreThrows(blob) \/ DownloadsThrow(blob)

\* mobx_store.serverStore.servers (line 197) throws: no serverStore.
ServerStoreThrows(blob) == "serverStore" \notin blob.stores

\* Object.keys(mobx_store.settingStore) (line 207) throws: no settingStore.
SettingStoreThrows(blob) == "settingStore" \notin blob.stores

\* The body throws after downloadStore.set and before the version write.
ThrowsAfterSet(blob) ==
    ~ThrowsBeforeSet(blob) /\ (ServerStoreThrows(blob) \/ SettingStoreThrows(blob))

InitialOtherStores == [deviceId |-> NULL, servers |-> {}, settings |-> {}]

\* rootStore.set({ deviceId }) when the legacy device id is truthy (lines 172-174).
WithDeviceId(stores, blob) ==
    IF blob.deviceId # NULL THEN [stores EXCEPT !.deviceId = blob.deviceId] ELSE stores

\* serverStore.set and the settingStore.set loop (lines 197-210).
WithServersAndSettings(stores, blob) ==
    [stores EXCEPT !.servers = blob.servers,
                   !.settings = stores.settings \cup blob.settings]

\* serverStore.set alone (lines 197-204): the body went no further.
WithServers(stores, blob) == [stores EXCEPT !.servers = blob.servers]

(***************************************************************************)
(* What the device's storage may hold when the process is first launched.  *)
(***************************************************************************)
K1 == <<"s1", "i1">>
K2 == <<"s1", "i2">>
K3 == <<"s1", "i3">>

\* A 'DownloadStore' item written by earlier releases: a completed record
\* saved without its item and status, an entry that lost its identity, and
\* a record saved while its transfer was running.
OldSnapshot ==
    StoredText("state",
        << <<K1, SerializedDownload(<< >>, "i1", "s1", NULL, TRUE, FALSE, << >>)>>,
           <<K3, SerializedDownload(<< >>, NULL, NULL, NULL, FALSE, TRUE, << >>)>>,
           <<K2, SerializedDownload(<<NewItem("s1", "i2")>>, NULL, NULL, Downloading, FALSE, TRUE, <<FALSE>>)>> >>)

InitialDurable == {AbsentText, StoredText("unparseable", << >>), OldSnapshot}

\* Legacy blobs: one whose downloads all convert, one with a null download.
LegacyOk ==
    MobxBlob("json", "device1", SubStores,
        << <<K1, <<SerializedDownload(<< >>, "i1", "s1", NULL, FALSE, TRUE, << >>)>> >> >>,
        {"server1"}, {"theme"})

LegacyBadEntry ==
    MobxBlob("json", "device1", SubStores,
        << <<K2, << >> >>,
           <<K1, <<SerializedDownload(<< >>, "i1", "s1", NULL, FALSE, TRUE, << >>)>> >> >>,
        {"server1"}, {"theme"})

LegacyBlobs == {AbsentBlob, LegacyOk, LegacyBadEntry}

\* The stored migration version: none (a first launch, or a release from
\* before the migration) or the current one.
StoredVersions == {NULL, "2"}

(***************************************************************************)
(* The state machine                                                       *)
(***************************************************************************)
NoText == StoredText("none", << >>)

\* A call of a store action: its argument (an optional DownloadModel), what
\* it returned, and "true" when the call before it was a delete of the same
\* key that returned true ("void" otherwise).
Call(op, arg, ret, before) == [op |-> op, arg |-> arg, ret |-> ret, before |-> before]

NoCall == Call("none", << >>, "void", "void")

\* A Map object a component holds: the pairs it had when the component got
\* it from the store (taken), the pairs it has now, and whether it still is
\* the object in the store's state (live).  An optional object.
Snapshot(m) == <<[taken |-> m, now |-> m, live |-> TRUE]>>

NoSnapshot == << >>

\* The store's state is given another Map object: one held from before is
\* no longer the store's, and nothing has written to it.
Detached(snap) ==
    IF snap = NoSnapshot THEN snap ELSE <<[snap[1] EXCEPT !.live = FALSE]>>

\* The store's own Map object is written to: a component that holds that
\* object sees the write.
WrittenInPlace(snap, m) ==
    IF snap # NoSnapshot /\ snap[1].live THEN <<[snap[1] EXCEPT !.now = m]>> ELSE snap

\* The state of a freshly launched process over the given storage.
Launched ==
    /\ downloads = EmptyMap
    /\ notified = EmptyMap
    /\ pending = {}
    /\ lastFlushed = NoText
    /\ isHydrated = FALSE
    /\ hydratePc = "loading"
    /\ isSplashReady = FALSE
    /\ isStoresReady = FALSE
    /\ migratePc = "idle"
    /\ observers = {}
    /\ lastCall = NoCall
    /\ snapshot = NoSnapshot

Init ==
    /\ Launched
    /\ durable \in InitialDurable
    /\ zustandMigrated \in StoredVersions
    /\ mobxSync \in LegacyBlobs
    /\ otherStores = InitialOtherStores
    /\ skipLoadingScreen = FALSE

\* The persist middleware after a state replacement: storage.setItem
\* stringifies the new state and hands it to AsyncStorage.setItem, whose
\* promise nobody awaits (lines 121-131).
SetItem(m) ==
    /\ Cardinality(pending \cup {Serialize(m)}) <= MaxPending
    /\ pending' = pending \cup {Serialize(m)}
    /\ lastFlushed' = Serialize(m)

\* The subscribers told only once the write has completed: not at the commit.
Commit_WithoutNotification(m) ==
    /\ downloads' = m
    /\ notified' = notified
    /\ SetItem(m)
    /\ snapshot' = Detached(snapshot)

\* _set({ downloads }) under the persist middleware, with a Map object
\* made for the call (new Map(...)): the in-memory replacement, the
\* subscribers' notification, then the flush.
Commit(m) ==
    /\ downloads' = m
    /\ notified' = m
    /\ SetItem(m)
    /\ snapshot' = Detached(snapshot)

\* An AsyncStorage.setItem in flight completes; the calls were not chained,
\* so any of them may complete next.
FlushComplete ==
    /\ \E text \in pending :
        /\ durable' = text
        /\ pending' = pending \ {text}
    /\ UNCHANGED <<downloads, notified, lastFlushed, zustandMigrated, mobxSync, otherStores,
                   isHydrated, hydratePc, isSplashReady, isStoresReady,
                   skipLoadingScreen, migratePc, observers, lastCall, snapshot>>

\* storage.getItem (lines 117-120) under the persist middleware: the
\* deserialized state replaces the store's; a rejected getItem leaves the
\* store unhydrated.
Hydrate ==
    /\ hydratePc = "loading"
    /\ IF DeserializeThrows(durable)
       THEN /\ hydratePc' = "failed"
            /\ UNCHANGED <<downloads, notified, isHydrated>>
       ELSE /\ hydratePc' = "done"
            /\ downloads' = Deserialize(durable)
            /\ notified' = Deserialize(durable)
            /\ isHydrated' = TRUE
    /\ UNCHANGED <<durable, pending, lastFlushed, zustandMigrated, mobxSync,
                   otherStores, isSplashReady, isStoresReady, skipLoadingScreen,
                   migratePc, observers, lastCall, snapshot>>

(***************************************************************************)
(* App: the startup sequence                                               *)
(***************************************************************************)
\* The render gate (line 286): the tree below App is rendered.
GateOpen == (isSplashReady /\ isStoresReady) \/ skipLoadingScreen

\* useDownloadHandler() (line 145), called by every render of App: the
\* download handler reads the download store.
DownloadHandlerReads == observers' = observers \cup {"downloadHandler"}

\* The render that sees isHydrated: useDownloadHandler() runs with it,
\* then the effect of lines 247-255 starts migrateStores() and
\* loadResources(); migrateStores awaits its two reads.
HydratedEffect ==
    /\ isHydrated
    /\ migratePc = "idle"
    /\ DownloadHandlerReads
    /\ migratePc' = "reading"
    /\ UNCHANGED <<downloads, notified, durable, pending, lastFlushed, zustandMigrated,
                   mobxSync, otherStores, isHydrated, hydratePc, isSplashReady,
                   isStoresReady, skipLoadingScreen, lastCall, snapshot>>

\* loadResources (lines 230-245) ends, whether or not loading failed.
LoadResourcesDone ==
    /\ migratePc # "idle"
    /\ ~isSplashReady
    /\ isSplashReady' = TRUE
    /\ UNCHANGED <<downloads, notified, durable, pending, lastFlushed, zustandMigrated,
                   mobxSync, otherStores, isHydrated, hydratePc, isStoresReady,
                   skipLoadingScreen, migratePc, observers, lastCall, snapshot>>

\* migrateStores when the condition of line 167 is false: line 219 only.
MigrateSkip ==
    /\ migratePc = "reading"
    /\ ~ShouldMigrate(zustandMigrated, mobxSync)
    /\ migratePc' = "skipped"
    /\ isStoresReady' = TRUE
    /\ UNCHANGED <<downloads, notified, durable, pending, lastFlushed, zustandMigrated,
                   mobxSync, otherStores, isHydrated, hydratePc, isSplashReady,
                   skipLoadingScreen, observers, lastCall, snapshot>>

\* The store's set action (lines 146-149) as the migration calls it:
\* the downloads are replaced by the given Map.
StoreSet(m) == Commit(m)

\* migrateStores, lines 168-216 up to the await: the legacy stores are
\* converted and written, and the version write is issued.
MigrateBody ==
    /\ migratePc = "reading"
    /\ ShouldMigrate(zustandMigrated, mobxSync)
    /\ ~ThrowsBeforeSet(mobxSync)
    /\ ~ThrowsAfterSet(mobxSync)
    /\ StoreSet(MigratedDownloads(mobxSync.downloads, EmptyMap))
    /\ otherStores' = WithServersAndSettings(WithDeviceId(otherStores, mobxSync), mobxSync)
    /\ migratePc' = "storing"
    /\ UNCHANGED <<durable, zustandMigrated, mobxSync, isHydrated, hydratePc,
                   isSplashReady, isStoresReady, skipLoadingScreen, observers,
                   lastCall>>

\* migrateStores throws before downloadStore.set: nothing catches, the
\* promise is rejected and lines 194-219 never run.  What ran before the
\* throw stays.
MigrateThrow ==
    /\ migratePc = "reading"
    /\ ShouldMigrate(zustandMigrated, mobxSync)
    /\ ThrowsBeforeSet(mobxSync)
    /\ otherStores' = IF ParseThrows(mobxSync) THEN otherStores
                      ELSE WithDeviceId(otherStores, mobxSync)
    /\ migratePc' = "failed"
    /\ UNCHANGED <<downloads, notified, durable, pending, lastFlushed, zustandMigrated,
                   mobxSync, isHydrated, hydratePc, isSplashReady, isStoresReady,
                   skipLoadingScreen, observers, lastCall, snapshot>>

\* migrateStores throws after downloadStore.set, at line 197 or 207: the
\* registry has been replaced and its flush issued, the version write and
\* setIsStoresReady(true) never run.
MigrateThrowAfterSet ==
    /\ migratePc = "reading"
    /\ ShouldMigrate(zustandMigrated, mobxSync)
    /\ ThrowsAfterSet(mobxSync)
    /\ StoreSet(MigratedDownloads(mobxSync.downloads, EmptyMap))
    /\ otherStores' = IF ServerStoreThrows(mobxSync)
                      THEN WithDeviceId(otherStores, mobxSync)
                      ELSE WithServers(WithDeviceId(otherStores, mobxSync), mobxSync)
    /\ migratePc' = "failed"
    /\ UNCHANGED <<durable, zustandMigrated, mobxSync, isHydrated, hydratePc,
                   isSplashReady, isStoresReady, skipLoadingScreen, observers,
                   lastCall>>

\* `${ZUSTAND_MIGRATION_VERSION}`
FormatVersion(n) ==
    CASE n = 0 -> "0" [] n = 1 -> "1" [] n = 2 -> "2" [] n = 3 -> "3" [] OTHER -> NULL

\* The awaited AsyncStorage.setItem(ZUSTAND_MIGRATED, ...) completes
\* (line 216), then setIsStoresReady(true) (line 219).
MigrateStored ==
    /\ migratePc = "storing"
    /\ zustandMigrated' = FormatVersion(ZUSTAND_MIGRATION_VERSION)
    /\ isStoresReady' = TRUE
    /\ migratePc' = "migrated"
    /\ UNCHANGED <<downloads, notified, durable, pending, lastFlushed, mobxSync, otherStores,
                   isHydrated, hydratePc, isSplashReady, skipLoadingScreen,
                   observers, lastCall, snapshot>>

\* The tree below App (NavigationContainer, RootNavigator and the screens)
\* is rendered and reads the stores (lines 290-304).
RenderNavigator ==
    /\ GateOpen
    /\ observers' = observers \cup {"navigator"}
    /\ UNCHANGED <<downloads, notified, durable, pending, lastFlushed, zustandMigrated,
                   mobxSync, otherStores, isHydrated, hydratePc, isSplashReady,
                   isStoresReady, skipLoadingScreen, migratePc, lastCall, snapshot>>

\* The process ends and is launched again: the storage stays, writes in
\* flight that did not complete are lost.
Restart ==
    /\ downloads' = EmptyMap
    /\ notified' = EmptyMap
    /\ pending' = {}
    /\ lastFlushed' = NoText
    /\ isHydrated' = FALSE
    /\ hydratePc' = "loading"
    /\ isSplashReady' = FALSE
    /\ isStoresReady' = FALSE
    /\ migratePc' = "idle"
    /\ observers' = {}
    /\ lastCall' = NoCall
    /\ snapshot' = NoSnapshot
    /\ UNCHANGED <<durable, zustandMigrated, mobxSync, otherStores, skipLoadingScreen>>

(***************************************************************************)
(* useDownloadStore: the actions the screens call (lines 154-174)          *)
(***************************************************************************)
\* The callers are components below the render gate.
CallerMounted == "navigator" \in observers

frame == <<durable, zustandMigrated, mobxSync, otherStores, isHydrated, hydratePc,
           isSplashReady, isStoresReady, skipLoadingScreen, migratePc, observers>>

\* "true" when the call before this one was a delete of the same key that
\* returned true.
Before(download) ==
    IF lastCall.op = "delete" /\ Key(lastCall.arg[1]) = Key(download) /\ lastCall.ret = "true"
    THEN "true"
    ELSE "void"

\* The count without the isNew filter.
NewDownloadCount_All(m) == Len(m)

\* Array.from(downloads.values()).filter(d => d.isNew).length
NewDownloadCount(m) == Len(SelectSeq(m, LAMBDA e : e[2].isNew))

\* getNewDownloadCount (lines 150-153): it reads _get().downloads only.
getNewDownloadCount ==
    /\ CallerMounted
    /\ lastCall' = Call("getNewDownloadCount", << >>, NewDownloadCount(downloads), "void")
    /\ UNCHANGED <<downloads, notified, pending, lastFlushed, snapshot>>
    /\ UNCHANGED frame

\* add without the has() test: it stores the record whatever the Map holds.
add_WithoutHasTest(download) ==
    /\ CallerMounted
    /\ Commit(MapSet(downloads, Key(download), download))
    /\ lastCall' = Call("add", <<download>>, "void", "void")
    /\ UNCHANGED frame

\* add (lines 154-159); it returns nothing.
add(download) ==
    /\ CallerMounted
    /\ IF ~MapHas(downloads, Key(download))
       THEN Commit(MapSet(downloads, Key(download), download))
       ELSE UNCHANGED <<downloads, notified, pending, lastFlushed, snapshot>>
    /\ lastCall' = Call("add", <<download>>, "void", "void")
    /\ UNCHANGED frame

\* delete returning true whether or not the key was there.
delete_AlwaysTrue(download) ==
    /\ CallerMounted
    /\ IF MapHas(downloads, Key(download))
       THEN Commit(MapDelete(downloads, Key(download)))
       ELSE UNCHANGED <<downloads, notified, pending, lastFlushed, snapshot>>
    /\ lastCall' = Call("delete", <<download>>, "true", Before(download))
    /\ UNCHANGED frame

\* delete (lines 160-168); it returns isDeleted.
delete(download) ==
    /\ CallerMounted
    /\ IF MapHas(downloads, Key(download))
       THEN /\ Commit(MapDelete(downloads, Key(download)))
            /\ lastCall' = Call("delete", <<download>>, "true", Before(download))
       ELSE /\ UNCHANGED <<downloads, notified, pending, lastFlushed, snapshot>>
            /\ lastCall' = Call("delete", <<download>>, "false", Before(download))
    /\ UNCHANGED frame

\* update writing to the store's own Map instead of a copy of it:
\* _get().downloads.set(download.key, download), then _set({ downloads }).
update_InPlace(download) ==
    /\ CallerMounted
    /\ downloads' = MapSet(downloads, Key(download), download)
    /\ notified' = MapSet(downloads, Key(download), download)
    /\ SetItem(MapSet(downloads, Key(download), download))
    /\ snapshot' = WrittenInPlace(snapshot, MapSet(downloads, Key(download), download))
    /\ lastCall' = Call("update", <<download>>, "void", "void")
    /\ UNCHANGED frame

\* update that only replaces a record already stored.
update_OnlyIfPresent(download) ==
    /\ CallerMounted
    /\ IF MapHas(downloads, Key(download))
       THEN Commit(MapSet(downloads, Key(download), download))
       ELSE UNCHANGED <<downloads, notified, pending, lastFlushed, snapshot>>
    /\ lastCall' = Call("update", <<download>>, "void", "void")
    /\ UNCHANGED frame

\* update (lines 169-173)
update(download) ==
    /\ CallerMounted
    /\ Commit(MapSet(downloads, Key(download), download))
    /\ lastCall' = Call("update", <<download>>, "void", "void")
    /\ UNCHANGED frame

\* reset (line 174)
reset ==
    /\ CallerMounted
    /\ Commit(EmptyMap)
    /\ lastCall' = Call("reset", << >>, "void", "void")
    /\ UNCHANGED frame

Next ==
    \/ Hydrate
    \/ HydratedEffect
    \/ LoadResourcesDone
    \/ MigrateSkip
    \/ MigrateBody
    \/ MigrateThrow
    \/ MigrateStored
    \/ RenderNavigator
    \/ \E download \in DownloadModels : add(download)
    \/ \E download \in DownloadModels : delete(download)
    \/ \E download \in DownloadModels : update(download)
    \/ reset
    \/ getNewDownloadCount
    \/ FlushComplete
    \/ Restart

Spec == Init /\ [][Next]_vars

(***************************************************************************)
(* A component below the gate that keeps the Map it read from the store    *)
(* (useDownloadStore(state => state.downloads)) while the store's actions  *)
(* are called, in the process of a first launch with nothing to migrate.   *)
(***************************************************************************)
\* A component reads state.downloads and keeps the Map object.
TakeSnapshot ==
    /\ CallerMounted
    /\ snapshot' = Snapshot(downloads)
    /\ UNCHANGED <<downloads, notified, pending, lastFlushed, lastCall>>
    /\ UNCHANGED frame

InitObserved ==
    /\ Launched
    /\ durable = AbsentText
    /\ zustandMigrated = FormatVersion(ZUSTAND_MIGRATION_VERSION)
    /\ mobxSync = AbsentBlob
    /\ otherStores = InitialOtherStores
    /\ skipLoadingScreen = FALSE

NextObserved ==
    \/ Hydrate
    \/ HydratedEffect
    \/ LoadResourcesDone
    \/ MigrateSkip
    \/ RenderNavigator
    \/ TakeSnapshot
    \/ \E download \in DownloadModels : add(download)
    \/ \E download \in DownloadModels : delete(download)
    \/ \E download \in DownloadModels : update(download)
    \/ reset
    \/ FlushComplete

SpecObserved == InitObserved /\ [][NextObserved]_vars

(***************************************************************************)
(* One startup of App, from the launch to the open gate, over every stored *)
(* migration version and legacy blob: the blobs above, one that is not     *)
(* JSON, and one for each sub-store the blob may lack.  Every step of the  *)
(* startup is the continuation of a promise or an effect React runs, so    *)
(* each is taken once it can be.                                           *)
(***************************************************************************)
BlobWithout(store) ==
    MobxBlob("json", "device1", SubStores \ {store},
        << <<K1, <<SerializedDownload(<< >>, "i1", "s1", NULL, FALSE, TRUE, << >>)>> >> >>,
        {"server1"}, {"theme"})

UnparseableBlob == MobxBlob("unparseable", NULL, {}, << >>, {}, {})

StartupBlobs == LegacyBlobs \cup {UnparseableBlob} \cup { BlobWithout(store) : store \in SubStores }

\* None, versions below, at and above the current one, and text that is no
\* number.
StartupVersions == {NULL, "0", "1", "2", "3", "x"}

InitStartup ==
    /\ Launched
    /\ durable \in InitialDurable
    /\ zustandMigrated \in StartupVersions
    /\ mobxSync \in StartupBlobs
    /\ otherStores = InitialOtherStores
    /\ skipLoadingScreen = FALSE

NextStartup ==
    \/ Hydrate
    \/ HydratedEffect
    \/ LoadResourcesDone
    \/ MigrateSkip
    \/ MigrateBody
    \/ MigrateThrow
    \/ MigrateThrowAfterSet
    \/ MigrateStored
    \/ RenderNavigator
    \/ FlushComplete

StartupFairness ==
    /\ WF_vars(Hydrate)
    /\ WF_vars(HydratedEffect)
    /\ WF_vars(LoadResourcesDone)
    /\ WF_vars(MigrateSkip)
    /\ WF_vars(MigrateBody)
    /\ WF_vars(MigrateThrow)
    /\ WF_vars(MigrateThrowAfterSet)
    /\ WF_vars(MigrateStored)
    /\ WF_vars(FlushComplete)

SpecStartup == InitStartup /\ [][NextStartup]_vars /\ StartupFairness

(***************************************************************************)
(* The load alone, over the snapshots a device may hold: every sequence of *)
(* up to MaxStored pairs, each pair a key with a stored download of one of *)
(* the shapes the releases wrote or a damaged one, and the texts that are  *)
(* no snapshot at all.                                                     *)
(***************************************************************************)
StoredShapes == {"item", "itemFailed", "idsComplete", "ids", "noIds", "noServerId"}

\* The stored download of the given shape for the record the key names.
StoredDownload(key, shape) ==
    CASE shape = "item" ->
            SerializedDownload(<<NewItem(key[1], key[2])>>, NULL, NULL, Downloading, FALSE, TRUE, <<FALSE>>)
      [] shape = "itemFailed" ->
            SerializedDownload(<<NewItem(key[1], key[2])>>, NULL, NULL, Failed, FALSE, FALSE, <<TRUE>>)
      [] shape = "idsComplete" ->
            SerializedDownload(<< >>, key[2], key[1], NULL, TRUE, FALSE, << >>)
      [] shape = "ids" ->
            SerializedDownload(<< >>, key[2], key[1], NULL, FALSE, TRUE, << >>)
      [] shape = "noIds" ->
            SerializedDownload(<< >>, NULL, NULL, Complete, TRUE, TRUE, << >>)
      [] OTHER ->
            SerializedDownload(<< >>, key[2], NULL, NULL, FALSE, TRUE, <<TRUE>>)

StoredPairs == { <<key, StoredDownload(key, shape)>> : key \in {K1, K2}, shape \in StoredShapes }

StoredTexts ==
    { StoredText("state", entries) :
        entries \in UNION { [1..n -> StoredPairs] : n \in 0..MaxStored } }
    \cup { StoredText(kind, << >>) : kind \in {"absent", "unparseable", "nostate", "noarray"} }

InitLoad ==
    /\ Launched
    /\ durable \in StoredTexts
    /\ zustandMigrated = NULL
    /\ mobxSync = AbsentBlob
    /\ otherStores = InitialOtherStores
    /\ skipLoadingScreen = FALSE

NextLoad == Hydrate

SpecLoad == InitLoad /\ [][NextLoad]_vars

(***************************************************************************)
(* Properties                                                              *)
(***************************************************************************)
\* No two entries of the Map share a key, and no two hold records with the
\* same derived key.
OneRecordPerKey(m) ==
    \A i, j \in 1..Len(m) :
        (m[i][1] = m[j][1] \/ Key(m[i][2]) = Key(m[j][2])) => i = j

\* Every entry of m1 under a key other than k is in m2 with the same record,
\* and m2 holds no other key than k that m1 lacks.
SameExceptKey(m1, m2, k) ==
    \A key \in (MapKeys(m1) \cup MapKeys(m2)) \ {k} :
        /\ MapHas(m1, key)
        /\ MapHas(m2, key)
        /\ MapGet(m1, key) = MapGet(m2, key)

\* What every step that is a call of the store action op with the given
\* record shows: the call is the latest one, and no write has completed.
IsCall(op, download) ==
    /\ lastCall'.op = op
    /\ lastCall'.arg = <<download>>
    /\ durable' = durable
    /\ observers' = observers

\* C1: whatever add calls were made, the registry holds at most one record
\* per key, and an add whose key is already present changes neither the
\* record stored under that key nor any other entry; an add of an absent key
\* inserts the record and leaves the other entries alone.
C1_AddNeverDuplicatesNorOverwrites ==
    /\ []OneRecordPerKey(downloads)
    /\ [][\A download \in DownloadModels :
            (IsCall("add", download) /\ add(download)) =>
                IF MapHas(downloads, Key(download))
                THEN downloads' = downloads
                ELSE /\ MapHas(downloads', Key(download))
                     /\ MapGet(downloads', Key(download)) = download
                     /\ SameExceptKey(downloads, downloads', Key(download))]_vars

\* C1 witness: the latest call was an add of a record whose key the registry
\* already held with another record, next to an entry under another key, and
\* the stored record is still the other one.
C1_Witness ==
    /\ lastCall.op = "add"
    /\ Len(downloads) = 2
    /\ MapHas(downloads, Key(lastCall.arg[1]))
    /\ MapGet(downloads, Key(lastCall.arg[1])) # lastCall.arg[1]

\* C2: the legacy migration keeps every record the registry held when it
\* ran, unchanged, and leaves no key duplicated.
C2_MigrationKeepsExistingRecords ==
    [][MigrateBody =>
        /\ \A key \in MapKeys(downloads) :
            /\ MapHas(downloads', key)
            /\ MapGet(downloads', key) = MapGet(downloads, key)
        /\ OneRecordPerKey(downloads')]_vars

\* C3: once no flush is in flight, the durable snapshot is the one the
\* latest mutation of this process handed to storage.setItem: no earlier
\* flush has completed after it and overwritten it.
C3_FlushesAreSerialized ==
    (pending = {} /\ lastFlushed # NoText) => durable = lastFlushed

\* C4: rehydration loads no record with status Downloading: a record stored
\* as Downloading is loaded as Queued, and every other stored status is
\* loaded as stored.
C4_DownloadingIsLoadedAsQueued ==
    [][(Hydrate /\ hydratePc' = "done") =>
        /\ \A i \in 1..Len(downloads') : downloads'[i][2].status # Downloading
        /\ \A j \in 1..Len(durable.downloads) :
            LET key == durable.downloads[j][1]
                obj == durable.downloads[j][2]
            IN  ( /\ obj.item # << >> \/ (obj.itemId # NULL /\ obj.serverId # NULL)
                  /\ obj.status # NULL
                  /\ \A l \in (j + 1)..Len(durable.downloads) : durable.downloads[l][1] # key )
                => /\ MapHas(downloads', key)
                   /\ MapGet(downloads', key).status =
                        IF obj.status = Downloading THEN Queued ELSE obj.status]_vars

\* C4 witness: after a restart the store has just been rehydrated from a
\* snapshot holding a Downloading record, now Queued, and a record with
\* another status, loaded with that status.
C4_Witness ==
    /\ lastFlushed = NoText
    /\ hydratePc = "done"
    /\ migratePc = "idle"
    /\ \E j, l \in 1..Len(durable.downloads) :
        /\ durable.downloads[j][2].status = Downloading
        /\ MapGet(downloads, durable.downloads[j][1]).status = Queued
        /\ durable.downloads[l][2].status \in {Complete, Failed}
        /\ MapGet(downloads, durable.downloads[l][1]).status = durable.downloads[l][2].status

\* C5: a migration run that completes has stored the current version, and
\* in a launch that finds that version stored migrateStores ends without
\* touching the registry: no replacement, no insertion, no flush.
C5_MigrationIsIdempotent ==
    /\ [](migratePc = "migrated" => zustandMigrated = "2")
    /\ [][(zustandMigrated = "2" /\ migratePc = "reading" /\ migratePc' \notin {"reading", "idle"})
            => /\ migratePc' = "skipped"
               /\ downloads' = downloads
               /\ notified' = notified
               /\ pending' = pending
               /\ lastFlushed' = lastFlushed
               /\ zustandMigrated' = "2"]_vars

\* C5 witness: a later launch over the same legacy blob, after an earlier
\* launch migrated it and stored the version, has skipped the migration.
C5_Witness ==
    /\ lastFlushed = NoText
    /\ migratePc = "skipped"
    /\ zustandMigrated = "2"
    /\ mobxSync = LegacyOk
    /\ otherStores.deviceId = "device1"

\* C6: the migration body runs exactly when the stored version is below 2
\* and a legacy blob is present; otherwise migrateStores changes neither the
\* registry, nor the other stores, nor the stored version.  The stored
\* version is written by a run of the body only.
C6_MigrationIsGated ==
    /\ [][(migratePc = "reading" /\ migratePc' \notin {"reading", "idle"}) =>
            LET applicable == /\ zustandMigrated \in {NULL, "0", "1"}
                              /\ mobxSync.kind # "absent"
            IN  /\ applicable <=> migratePc' \in {"storing", "failed"}
                /\ ~applicable =>
                    /\ migratePc' = "skipped"
                    /\ downloads' = downloads
                    /\ notified' = notified
                    /\ pending' = pending
                    /\ otherStores' = otherStores
                    /\ zustandMigrated' = zustandMigrated]_vars
    /\ [][zustandMigrated' # zustandMigrated => migratePc = "storing"]_vars

\* C6 witness: with no stored version (read as 0, below 2) but no legacy
\* blob, the migration was skipped and the rehydrated registry is as it was
\* loaded.
C6_Witness ==
    /\ migratePc = "skipped"
    /\ zustandMigrated = NULL
    /\ mobxSync.kind = "absent"
    /\ downloads = Deserialize(durable)
    /\ downloads # EmptyMap

\* C7: when the body of the migration runs over a parseable blob, it ends
\* with every convertible legacy download in the registry and the version
\* write issued, whether or not another entry failed to convert.
C7_BadEntryDoesNotAbortMigration ==
    [][(migratePc = "reading" /\ migratePc' \notin {"reading", "idle", "skipped"}
            /\ mobxSync.kind = "json") =>
        /\ migratePc' = "storing"
        /\ \A i \in 1..Len(mobxSync.downloads) :
            mobxSync.downloads[i][2] # << >> => MapHas(downloads', mobxSync.downloads[i][1])]_vars

\* C8: without skipLoadingScreen nobody reads the registry before the
\* migration has completed or been found inapplicable, and the migration is
\* started only once the store is hydrated.
C8_MigrationGatesObservers ==
    ~skipLoadingScreen =>
        /\ observers # {} => migratePc \in {"skipped", "migrated"}
        /\ migratePc # "idle" => isHydrated

\* C9: delete of a stored key removes that entry only and returns true;
\* delete of an absent key returns false and changes nothing; a delete that
\* follows a successful delete of the same key returns false.
C9_DeleteReportsRemoval ==
    [][\A download \in DownloadModels :
        (IsCall("delete", download) /\ delete(download)) =>
            /\ IF MapHas(downloads, Key(download))
               THEN /\ lastCall'.ret = "true"
                    /\ ~MapHas(downloads', Key(download))
                    /\ SameExceptKey(downloads, downloads', Key(download))
               ELSE /\ lastCall'.ret = "false"
                    /\ downloads' = downloads
            /\ ( /\ lastCall.op = "delete"
                 /\ Key(lastCall.arg[1]) = Key(download)
                 /\ lastCall.ret = "true" )
               => lastCall'.ret = "false"]_vars

\* C9 witness: the same key was deleted twice in a row, the calls returned
\* true then false, and another entry is still in the registry.
C9_Witness ==
    /\ lastCall.op = "delete"
    /\ lastCall.before = "true"
    /\ lastCall.ret = "false"
    /\ downloads # EmptyMap

\* C10: update stores its record under the record's key whether or not the
\* key was present, leaves the other entries as they were, notifies the
\* subscribers of the new collection and hands it to the storage.
C10_UpdateIsUpsert ==
    [][\A download \in DownloadModels :
        (IsCall("update", download) /\ update(download)) =>
            /\ MapHas(downloads', Key(download))
            /\ MapGet(downloads', Key(download)) = download
            /\ SameExceptKey(downloads, downloads', Key(download))
            /\ OneRecordPerKey(downloads')
            /\ notified' = downloads'
            /\ Serialize(downloads') \in pending'
            /\ lastFlushed' = Serialize(downloads')]_vars

\* C10 witness: the latest call was an update of a key the durable snapshot
\* still holds with another status, next to another entry: the registry maps
\* the key to the update's record, the subscribers have the new collection
\* and its flush is in flight.
C10_Witness ==
    /\ lastCall.op = "update"
    /\ Len(downloads) = 2
    /\ MapGet(downloads, Key(lastCall.arg[1])) = lastCall.arg[1]
    /\ notified = downloads
    /\ Serialize(downloads) \in pending
    /\ \E j \in 1..Len(durable.downloads) :
        /\ durable.downloads[j][1] = Key(lastCall.arg[1])
        /\ durable.downloads[j][2].status # lastCall.arg[1].status

\* The pairs of m in their order, a record with status Downloading having
\* status Queued instead.
WithDownloadingQueued(m) ==
    [i \in 1..Len(m) |->
        <<m[i][1],
          IF m[i][2].status = Downloading
          THEN [m[i][2] EXCEPT !.status = Queued]
          ELSE m[i][2]>>]

\* A snapshot as storage.setItem writes it: every record with its item, its
\* status and its canPlay.
WrittenByStore(text) ==
    /\ text.kind = "state"
    /\ \A j \in 1..Len(text.downloads) :
        /\ text.downloads[j][2].item # << >>
        /\ text.downloads[j][2].status # NULL
        /\ text.downloads[j][2].canPlay # << >>

\* C11 as stated: the text storage.setItem writes for the registry
\* deserializes to the same pairs in the same order, status included.
C11_RoundTripIsIdentity ==
    /\ ~DeserializeThrows(Serialize(downloads))
    /\ Deserialize(Serialize(downloads)) = downloads

\* C11 amended: the text storage.setItem writes for the registry
\* deserializes, without throwing, to the same keys in the same order, each
\* with the record it had, except that a record with status Downloading
\* comes back with status Queued; and a process that loads a snapshot this
\* store wrote gets exactly that registry.
C11_RoundTripExceptDownloading ==
    /\ [](/\ ~DeserializeThrows(Serialize(downloads))
          /\ Deserialize(Serialize(downloads)) = WithDownloadingQueued(downloads))
    /\ [][(Hydrate /\ WrittenByStore(durable)) =>
            /\ hydratePc' = "done"
            /\ Len(downloads') = Len(durable.downloads)
            /\ \A j \in 1..Len(durable.downloads) :
                LET obj == durable.downloads[j][2]
                IN  /\ downloads'[j][1] = durable.downloads[j][1]
                    /\ downloads'[j][2] =
                          [item |-> obj.item[1],
                           status |-> IF obj.status = Downloading THEN Queued ELSE obj.status,
                           isNew |-> obj.isNew,
                           canPlay |-> obj.canPlay[1]]]_vars

\* C11 witness: after a restart the registry was loaded from a snapshot the
\* previous process wrote: two records in the order they were stored, the
\* first stored as Downloading with canPlay false and loaded as Queued with
\* canPlay false, the second Complete as stored.
C11_Witness ==
    /\ lastFlushed = NoText
    /\ pending = {}
    /\ hydratePc = "done"
    /\ Len(downloads) = 2
    /\ Len(durable.downloads) = 2
    /\ \A j \in 1..2 : durable.downloads[j][2].item # << >>
    /\ durable.downloads[1][1] = K2
    /\ durable.downloads[1][2].status = Downloading
    /\ durable.downloads[1][2].canPlay = <<FALSE>>
    /\ durable.downloads[2][2].status = Complete
    /\ downloads[1][1] = K2
    /\ downloads[1][2].status = Queued
    /\ downloads[1][2].canPlay = FALSE
    /\ downloads[2][2].status = Complete

\* The claim's test of a stored entry: it has a full item descriptor, or
\* both itemId and serverId.
HasIdentity(obj) == obj.item # << >> \/ (obj.itemId # NULL /\ obj.serverId # NULL)

\* The last pair of the snapshot with the given key and an identity.
LastValid(entries, key) ==
    entries[CHOOSE j \in 1..Len(entries) :
        /\ entries[j][1] = key
        /\ HasIdentity(entries[j][2])
        /\ \A l \in (j + 1)..Len(entries) :
            ~(entries[l][1] = key /\ HasIdentity(entries[l][2]))][2]

\* C12: the load of a snapshot skips the entries that have neither an item
\* nor both itemId and serverId and loads every other entry under its key:
\* the loaded keys are exactly the keys of the valid entries, wherever the
\* invalid ones sit, and each holds the item of its valid entry.
C12_InvalidEntriesAreSkipped ==
    [][(Hydrate /\ durable.kind = "state") =>
        /\ hydratePc' = "done"
        /\ MapKeys(downloads') =
             { durable.downloads[j][1] : j \in { l \in 1..Len(durable.downloads) :
                                                    HasIdentity(durable.downloads[l][2]) } }
        /\ \A key \in MapKeys(downloads') :
            LET obj == LastValid(durable.downloads, key)
            IN  /\ MapGet(downloads', key).item =
                      IF obj.item # << >> THEN obj.item[1]
                      ELSE [Id |-> obj.itemId, ServerId |-> obj.serverId]
                /\ MapGet(downloads', key).isNew = obj.isNew]_vars

\* C12 witness: a snapshot of three pairs whose first is invalid and whose
\* others are valid was loaded, and the registry holds the two valid keys.
C12_Witness ==
    /\ hydratePc = "done"
    /\ Len(durable.downloads) = 3
    /\ ~HasIdentity(durable.downloads[1][2])
    /\ HasIdentity(durable.downloads[2][2])
    /\ HasIdentity(durable.downloads[3][2])
    /\ durable.downloads[2][1] # durable.downloads[3][1]
    /\ Len(downloads) = 2

\* C13: loading an absent or corrupt durable file (unparseable text, or
\* text without the state object) completes without an exception and leaves
\* the registry empty.
C13_CorruptFileLoadsEmpty ==
    [][(Hydrate /\ durable.kind \in {"absent", "unparseable", "nostate"}) =>
        /\ hydratePc' = "done"
        /\ isHydrated'
        /\ downloads' = EmptyMap]_vars

\* C17: a stored record without a status field is loaded with status
\* Complete when its isComplete is true, and with the initial status Queued
\* otherwise.
C17_LegacyIsCompleteIsLoadedAsComplete ==
    [][(Hydrate /\ durable.kind = "state") =>
        \A key \in MapKeys(downloads') :
            LET obj == LastValid(durable.downloads, key)
            IN  obj.status = NULL =>
                    MapGet(downloads', key).status =
                        IF obj.isComplete THEN Complete ELSE Queued]_vars

\* C17 witness: a snapshot with a status-less record marked isComplete and a
\* status-less record not marked was loaded: the first is Complete, the
\* second Queued.
C17_Witness ==
    /\ hydratePc = "done"
    /\ Len(durable.downloads) = 2
    /\ durable.downloads[1][2] = StoredDownload(K1, "idsComplete")
    /\ durable.downloads[2][2] = StoredDownload(K2, "ids")
    /\ MapGet(downloads, durable.downloads[1][1]).status = Complete
    /\ MapGet(downloads, durable.downloads[2][1]).status = Queued

\* What a mutation that commits leaves when it returns: the subscribers
\* have the new collection, its write is in flight and the durable item is
\* the one from before the call.
ReturnedBeforeFlush ==
    /\ notified' = downloads'
    /\ Serialize(downloads') \in pending'
    /\ lastFlushed' = Serialize(downloads')
    /\ durable' = durable

\* C14: add of an absent key, delete of a stored key, update and reset
\* commit the new collection in memory, notify the subscribers of it and
\* return with the write only issued: the durable item is still the old one.
C14_CommitNotifyThenFlush ==
    [][/\ \A download \in DownloadModels :
            /\ (IsCall("add", download) /\ ~MapHas(downloads, Key(download)) /\ add(download)) =>
                    (MapHas(downloads', Key(download)) /\ ReturnedBeforeFlush)
            /\ (IsCall("delete", download) /\ MapHas(downloads, Key(download)) /\ delete(download)) =>
                    (~MapHas(downloads', Key(download)) /\ ReturnedBeforeFlush)
            /\ (IsCall("update", download) /\ update(download)) =>
                    (MapGet(downloads', Key(download)) = download /\ ReturnedBeforeFlush)
       /\ (lastCall'.op = "reset" /\ reset) => (downloads' = EmptyMap /\ ReturnedBeforeFlush)]_vars

\* C14 witness: reset has returned and a component has read the store
\* since: it and the subscribers have the empty collection, the write of it
\* is in flight, and the durable item still holds the records from before.
C14_Witness ==
    /\ lastCall.op = "reset"
    /\ downloads = EmptyMap
    /\ notified = EmptyMap
    /\ snapshot = Snapshot(EmptyMap)
    /\ Serialize(EmptyMap) \in pending
    /\ durable.kind = "state"
    /\ Len(durable.downloads) > 0
    /\ lastFlushed # durable

\* The lifecycle's order: Queued, then Downloading, then Complete or Failed.
StatusRank(status) ==
    CASE status = Queued -> 0
      [] status = Downloading -> 1
      [] OTHER -> 2

\* C15: from one registry state to the next of the same process, the status
\* of a record that stays under its key is unchanged or further in the
\* lifecycle, except for Failed to Queued through update; a loaded record
\* is never Downloading.
C15_StatusMovesForward ==
    /\ [][\A key \in MapKeys(downloads) \cap MapKeys(downloads') :
            LET old == MapGet(downloads, key).status
                new == MapGet(downloads', key).status
            IN  \/ old = new
                \/ StatusRank(old) < StatusRank(new)
                \/ /\ old = Failed
                   /\ new = Queued
                   /\ \E download \in DownloadModels : update(download)]_vars
    /\ [][Hydrate => \A i \in 1..Len(downloads') : downloads'[i][2].status # Downloading]_vars

\* C16: add returns true when it inserted the record and false when the key
\* was already stored.
C16_AddReturnsWhetherInserted ==
    [][\A download \in DownloadModels :
        add(download) =>
            lastCall'.ret = IF MapHas(downloads, Key(download)) THEN "false" ELSE "true"]_vars

\* C18: getNewDownloadCount returns the number of records of the registry
\* whose isNew is true, 0 for the empty registry, and the call changes
\* neither the registry, nor what the subscribers were given, nor the writes
\* in flight, nor the durable item.
C18_CountIsReadOnly ==
    [][(lastCall'.op = "getNewDownloadCount" /\ getNewDownloadCount) =>
        /\ lastCall'.ret = Cardinality({ i \in 1..Len(downloads) : downloads[i][2].isNew })
        /\ downloads = EmptyMap => lastCall'.ret = 0
        /\ downloads' = downloads
        /\ notified' = notified
        /\ pending' = pending
        /\ lastFlushed' = lastFlushed
        /\ durable' = durable]_vars

\* C18 witness: the count was taken of a registry of two records, one new
\* and one not, and returned 1.
C18_Witness ==
    /\ lastCall.op = "getNewDownloadCount"
    /\ lastCall.ret = 1
    /\ Len(downloads) = 2
    /\ \E i \in 1..2 : ~downloads[i][2].isNew

\* C19: reset leaves the registry with zero records and a new-download
\* count of 0, and once no write is in flight after a reset that was the
\* latest mutation, the durable item is one a restart loads as the empty
\* registry.
C19_ResetClearsForGood ==
    /\ [][reset => (downloads' = EmptyMap /\ NewDownloadCount(downloads') = 0)]_vars
    /\ []((lastCall.op = "reset" /\ pending = {}) =>
            (~DeserializeThrows(durable) /\ Deserialize(durable) = EmptyMap))

\* C20: a Map a component got from the store never changes afterwards: it
\* keeps the pairs it had when it was read, whatever mutations follow; the
\* store's own Map is, in every state, what the subscribers were last given;
\* and a mutation replaces the store's Map at most once, by the collection
\* it returns with.
C20_MutationsAreAtomic ==
    /\ [](snapshot # NoSnapshot => snapshot[1].now = snapshot[1].taken)
    /\ [](notified = downloads)
    /\ []((snapshot # NoSnapshot /\ snapshot[1].live) => snapshot[1].now = downloads)
    /\ [][(downloads' # downloads /\ snapshot # NoSnapshot) =>
            (snapshot' # NoSnapshot /\ ~snapshot'[1].live /\ snapshot'[1].taken = snapshot[1].taken)]_vars

\* C20 witness: a component kept the Map it read when the registry held two
\* records; an update of one of them and a reset followed, and the kept Map
\* still has its two records as read, while the store's is empty.
C20_Witness ==
    /\ snapshot # NoSnapshot
    /\ Len(snapshot[1].taken) = 2
    /\ snapshot[1].now = snapshot[1].taken
    /\ ~snapshot[1].live
    /\ lastCall.op = "reset"
    /\ downloads = EmptyMap
    /\ Len(durable.downloads) = 2
    /\ durable.downloads[1][2].item # << >>
    /\ durable.downloads # [i \in 1..2 |-> <<snapshot[1].taken[i][1], ToJSON(snapshot[1].taken[i][2])>>]

\* Every entry of the Map is stored under the derived key of its record.
KeyedByRecordKey(m) == \A i \in 1..Len(m) : m[i][1] = Key(m[i][2])

\* The entries of the Map whose record has the given derived key.
HoldersOf(m, k) == { i \in 1..Len(m) : Key(m[i][2]) = k }

\* C21: in every reachable state of the registry, after a rehydration and
\* after the legacy migration too, every entry is stored under the derived
\* key of its record; so a delete leaves no entry holding a record with the
\* key of its argument, and an add leaves exactly one, the one that was
\* there when the key was held.
C21_EntriesAreStoredUnderTheirKey ==
    /\ [](KeyedByRecordKey(downloads) /\ KeyedByRecordKey(notified))
    /\ [][(Hydrate \/ MigrateBody) => KeyedByRecordKey(downloads')]_vars
    /\ [][\A download \in DownloadModels :
            /\ (IsCall("delete", download) /\ delete(download)) =>
                    /\ HoldersOf(downloads', Key(download)) = {}
                    /\ lastCall'.ret = "true" <=> HoldersOf(downloads, Key(download)) # {}
            /\ (IsCall("add", download) /\ add(download)) =>
                    /\ Cardinality(HoldersOf(downloads', Key(download))) = 1
                    /\ HoldersOf(downloads, Key(download)) # {} => downloads' = downloads]_vars

\* C21 witness: the registry was rehydrated from a snapshot of an earlier
\* release whose first record was saved without its item, the legacy
\* migration then replaced the registry, and a delete of the migrated
\* record by a caller's own record of that key has removed it.
C21_Witness ==
    /\ durable = OldSnapshot
    /\ migratePc = "migrated"
    /\ lastCall.op = "delete"
    /\ lastCall.ret = "true"
    /\ lastCall.arg[1].status = Complete
    /\ downloads = EmptyMap

\* C22: in every startup in which the store's hydration completes, the
\* stores-ready flag eventually becomes true and the gate can open, whatever
\* the stored migration version and the legacy blob are.
C22_StoresBecomeReady ==
    isHydrated ~> isStoresReady

====
